---- MODULE Spec2Model ----
(***************************************************************************)
(* expand_every_cloudf.py: traverse a directory round after round, double- *)
(* click every .cloudf placeholder that the exclusion pattern does not     *)
(* match and spin until it is gone or the Spinner times out, until a round *)
(* finds no placeholder to expand.                                         *)
(*                                                                         *)
(* Paths are sequences of tokens ("root", "/", "a", ".cloudf"); a literal  *)
(* regular expression is a sequence of tokens and re.search is the search  *)
(* for a contiguous occurrence.  Timeout, SpinTime and RetryTime are the   *)
(* Spinner's timeout, spin_time and retry_time on a coarse time scale.     *)
(***************************************************************************)
EXTENDS Integers, Sequences, FiniteSets, TLC

VARIABLES
    args,                   \* parse_args(): directory, exclude_pattern
    cloudf_was_found,       \* the loop flag of traverse_and_open_all
    round_,                 \* round counter
    stack,                  \* os.walk: directories still to be listed
    root,                   \* os.walk: the directory just yielded
    cloud_folder_names,     \* names of the directory just yielded, still to do
    cloud_folder_full_path, \* the placeholder being expanded
    num_spins,              \* Spinner.num_spins of the current spinner
    pc,                     \* position of the program
    fs,                     \* the file system: a set of directory entries
    requested,              \* paths odrive was asked to sync (os.startfile)
    status,                 \* history: outcome per placeholder in this round
    task,                   \* history: the current or last expansion
    trigLog,                \* history: double clicks of the current expansion
    lastClick,              \* history: the last os.startfile call
    seen,                   \* history: paths present when last looked at
    prevTimedOut,           \* history: paths that timed out in the last round
    listed                  \* history: placeholders the walk of this round listed

vars == <<args, cloudf_was_found, round_, stack, root, cloud_folder_names,
          cloud_folder_full_path, num_spins, pc, fs, requested, status, task,
          trigLog, lastClick, seen, prevTimedOut, listed>>

progVars == <<args, cloudf_was_found, round_, stack, root, cloud_folder_names,
              cloud_folder_full_path, num_spins, pc>>

histVars == <<status, task, trigLog, lastClick, seen, prevTimedOut, listed>>

----------------------------------------------------------------------------
(* Bounds of the model *)

MaxRound == 3

Timeout == 11

SpinTime == 2

RetryTime == 3

MaxWorkers == 3

----------------------------------------------------------------------------
(* Spinner *)

Ceil(a, b) == (a + b - 1) \div b

retry_spins == Ceil(RetryTime, SpinTime)

timeout_spins == Ceil(Timeout, SpinTime)

\* mutant: the timeout is raised one spin late
RaiseOrRetryLate(n) ==
    IF n # 0
    THEN IF n > timeout_spins THEN "raise"
         ELSE IF (n % retry_spins) = 0 THEN "retry"
         ELSE "pass"
    ELSE "pass"

\* mutant: no guard for the first spin
RaiseOrRetryFirstSpin(n) ==
    IF n >= timeout_spins THEN "raise"
    ELSE IF (n % retry_spins) = 0 THEN "retry"
    ELSE "pass"

RaiseOrRetry(n) ==
    IF n # 0
    THEN IF n >= timeout_spins THEN "raise"
         ELSE IF (n % retry_spins) = 0 THEN "retry"
         ELSE "pass"
    ELSE "pass"

----------------------------------------------------------------------------
(* Paths, the exclusion pattern and the tree *)

Sep == "/"

Cloudf == ".cloudf"

os_path_join(dir, name) == dir \o <<Sep>> \o name

Contains(hay, needle) ==
    \E i \in 0..(Len(hay) - Len(needle)) :
        SubSeq(hay, i + 1, i + Len(needle)) = needle

re_search(pattern, path) == Contains(path, pattern.lit)

IsCloudf(filename) == Contains(filename, <<Cloudf>>)

Root == <<"root">>

Nowhere == <<"nowhere">>

File(dir, name) == [parent |-> dir, name |-> name, kind |-> "file"]

Dir(dir, name) == [parent |-> dir, name |-> name, kind |-> "dir"]

FileA == File(Root, <<"a", Cloudf>>)

FileB == File(Root, <<"b", Cloudf>>)

FileC == File(os_path_join(Root, <<"a">>), <<"c", Cloudf>>)

FileD == File(os_path_join(Root, <<"sub">>), <<"d", Cloudf>>)

Readme == File(Root, <<"readme">>)

DirSub == Dir(Root, <<"sub">>)

PathOf(e) == os_path_join(e.parent, e.name)

Placeholders == {FileA, FileB, FileC, FileD}

AllCloudf == {PathOf(e) : e \in Placeholders}

\* what odrive puts in place of a placeholder once it is synced
ExpandedName(e) == SubSeq(e.name, 1, Len(e.name) - 1)

Revealed(e) ==
    {Dir(e.parent, ExpandedName(e))}
        \cup {c \in Placeholders : c.parent = os_path_join(e.parent, ExpandedName(e))}

Trees == {{Readme, DirSub} \cup s : s \in SUBSET {FileA, FileB, FileD}}

NoPattern == [kind |-> "none", lit |-> <<>>]

BadPattern == [kind |-> "bad", lit |-> <<>>]

Literal(l) == [kind |-> "re", lit |-> l]

Patterns == {NoPattern, BadPattern, Literal(<<"b", Cloudf>>),
             Literal(<<"a">>), Literal(<<"sub", Sep>>)}

PathExists(path) == \E e \in fs : PathOf(e) = path

DirExists(path) ==
    \/ path = Root
    \/ \E e \in fs : e.kind = "dir" /\ PathOf(e) = path

\* mutant: a listing may name an entry more than once
OrderingsRepeating(S) == [1..Cardinality(S) -> S]

Orderings(S) ==
    {s \in [1..Cardinality(S) -> S] :
        \A i, j \in 1..Cardinality(S) : i # j => s[i] # s[j]}

\* mutant: only the top directory is listed, no subdirectory is descended into
ListDirsTopOnly(top) == {}

\* mutant: the listing is a stale one, it still names what has been expanded
ListFilesStale(top) ==
    {e.name : e \in {x \in fs \cup Placeholders : x.parent = top /\ x.kind = "file"}}

\* os.scandir(top) of os.walk: the names of the entries of a directory
ListDirs(top) == {e.name : e \in {x \in fs : x.parent = top /\ x.kind = "dir"}}

ListFiles(top) == {e.name : e \in {x \in fs : x.parent = top /\ x.kind = "file"}}

\* mutant: every file name is taken for a placeholder
CloudFolderNamesUnfiltered(filenames) == filenames

CloudFolderNames(filenames) == {f \in filenames : IsCloudf(f)}

\* mutant: the pattern is searched in the file name, not in the full path
IsExcludedBasename(dir, name) ==
    /\ args.exclude_pattern.kind # "none"
    /\ re_search(args.exclude_pattern, name)

IsExcluded(dir, name) ==
    /\ args.exclude_pattern.kind # "none"
    /\ re_search(args.exclude_pattern, os_path_join(dir, name))

\* os.startfile(file_path)
double_click(file_path) ==
    IF PathExists(file_path) THEN "started" ELSE "FileNotFoundError"

\* mutant: the program does not wait for the placeholder to go
NoWaitLoop == "names"

\* with spinner: while os.path.exists(...): the program goes on to the check
WaitLoop == "check"

\* mutant: the TimeoutException is not caught
UncaughtTimeoutException == "crashed"

\* except Spinner.TimeoutException: print the cross, go on with the next name
except_TimeoutException == "names"

----------------------------------------------------------------------------

NoTask == [path |-> <<>>, status |-> "Idle", round |-> 0, spins |-> 0,
           early |-> FALSE]

NoClick == [path |-> <<>>, kind |-> "none", spins |-> 0, existed |-> TRUE,
            looked |-> TRUE]

Init ==
    /\ args \in {[directory |-> d, exclude_pattern |-> p] :
                    d \in {Root, Nowhere}, p \in Patterns}
    /\ fs \in Trees
    /\ cloudf_was_found = TRUE
    /\ round_ = 0
    /\ stack = <<>>
    /\ root = <<>>
    /\ cloud_folder_names = <<>>
    /\ cloud_folder_full_path = <<>>
    /\ num_spins = 0
    /\ pc = "loop"
    /\ requested = {}
    /\ status = [p \in AllCloudf |-> "Idle"]
    /\ task = NoTask
    /\ trigLog = {}
    /\ lastClick = NoClick
    /\ seen = {}
    /\ prevTimedOut = {}
    /\ listed = {}

\* while cloudf_was_found: round_ += 1; cloudf_was_found = False; os.walk(...)
RoundStart ==
    /\ pc = "loop"
    /\ cloudf_was_found
    /\ round_ < MaxRound
    /\ round_' = round_ + 1
    /\ cloudf_was_found' = FALSE
    /\ stack' = <<args.directory>>
    /\ pc' = "walk"
    /\ prevTimedOut' = {p \in AllCloudf : status[p] = "TimedOut"}
    /\ status' = [p \in AllCloudf |-> "Idle"]
    /\ listed' = {}
    /\ UNCHANGED <<args, root, cloud_folder_names, cloud_folder_full_path,
                   num_spins, fs, requested, task, trigLog, lastClick, seen>>

\* mutant: the loop ends after a round whatever the round has found
AllDoneAnyway ==
    /\ pc = "loop"
    /\ round_ >= 1
    /\ pc' = "done"
    /\ UNCHANGED <<args, cloudf_was_found, round_, stack, root, cloud_folder_names,
                   cloud_folder_full_path, num_spins, fs, requested>>
    /\ UNCHANGED histVars

\* the loop condition is false: print "All done!"
AllDone ==
    /\ pc = "loop"
    /\ ~cloudf_was_found
    /\ pc' = "done"
    /\ UNCHANGED <<args, cloudf_was_found, round_, stack, root, cloud_folder_names,
                   cloud_folder_full_path, num_spins, fs, requested>>
    /\ UNCHANGED histVars

\* os.walk has no directory left: the for loop ends
WalkEnd ==
    /\ pc = "walk"
    /\ stack = <<>>
    /\ pc' = "loop"
    /\ UNCHANGED <<args, cloudf_was_found, round_, stack, root, cloud_folder_names,
                   cloud_folder_full_path, num_spins, fs, requested>>
    /\ UNCHANGED histVars

\* os.walk cannot list the directory: the error is ignored
WalkSkip ==
    /\ pc = "walk"
    /\ stack # <<>>
    /\ ~DirExists(Head(stack))
    /\ stack' = Tail(stack)
    /\ UNCHANGED <<args, cloudf_was_found, round_, root, cloud_folder_names,
                   cloud_folder_full_path, num_spins, pc, fs, requested>>
    /\ UNCHANGED histVars

\* os.walk lists the next directory and yields (root, dirs, filenames)
WalkNext ==
    /\ pc = "walk"
    /\ stack # <<>>
    /\ DirExists(Head(stack))
    /\ LET top == Head(stack) IN
        /\ \E dirs \in Orderings(ListDirs(top)) :
              stack' = [i \in 1..Len(dirs) |-> os_path_join(top, dirs[i])]
                           \o Tail(stack)
        /\ cloud_folder_names' \in Orderings(CloudFolderNames(ListFiles(top)))
        /\ root' = top
        /\ seen' = (seen \ {PathOf(e) : e \in {x \in Placeholders : x.parent = top}})
                        \cup {PathOf(e) : e \in {x \in fs \cap Placeholders : x.parent = top}}
        /\ listed' = listed \cup
              {PathOf(e) : e \in {x \in fs : /\ x.parent = top
                                              /\ x.kind = "file"
                                              /\ IsCloudf(x.name)}}
    /\ pc' = "names"
    /\ UNCHANGED <<args, cloudf_was_found, round_, cloud_folder_full_path,
                   num_spins, fs, requested, status, task, trigLog, lastClick,
                   prevTimedOut>>

\* for cloud_folder_name in cloud_folder_names: exhausted
NamesEnd ==
    /\ pc = "names"
    /\ cloud_folder_names = <<>>
    /\ pc' = "walk"
    /\ UNCHANGED <<args, cloudf_was_found, round_, stack, root, cloud_folder_names,
                   cloud_folder_full_path, num_spins, fs, requested>>
    /\ UNCHANGED histVars

\* re.search raises re.error on a malformed pattern
PatternError ==
    /\ pc = "names"
    /\ cloud_folder_names # <<>>
    /\ args.exclude_pattern.kind = "bad"
    /\ cloud_folder_full_path' = os_path_join(root, Head(cloud_folder_names))
    /\ cloud_folder_names' = Tail(cloud_folder_names)
    /\ pc' = "crashed"
    /\ UNCHANGED <<args, cloudf_was_found, round_, stack, root, num_spins, fs,
                   requested>>
    /\ UNCHANGED histVars

\* mutant: an excluded placeholder counts as found
SkipExcludedCounts ==
    /\ pc = "names"
    /\ cloud_folder_names # <<>>
    /\ args.exclude_pattern.kind # "bad"
    /\ IsExcluded(root, Head(cloud_folder_names))
    /\ cloud_folder_full_path' = os_path_join(root, Head(cloud_folder_names))
    /\ cloud_folder_names' = Tail(cloud_folder_names)
    /\ cloudf_was_found' = TRUE
    /\ UNCHANGED <<args, round_, stack, root, num_spins, pc, fs, requested>>
    /\ UNCHANGED histVars

\* the pattern matches the full path: "NOT expanding", continue
SkipExcluded ==
    /\ pc = "names"
    /\ cloud_folder_names # <<>>
    /\ args.exclude_pattern.kind # "bad"
    /\ IsExcluded(root, Head(cloud_folder_names))
    /\ cloud_folder_full_path' = os_path_join(root, Head(cloud_folder_names))
    /\ cloud_folder_names' = Tail(cloud_folder_names)
    /\ UNCHANGED <<args, cloudf_was_found, round_, stack, root, num_spins, pc, fs,
                   requested>>
    /\ UNCHANGED histVars

\* cloudf_was_found = True; double_click(path); spinner = Spinner(...)
Expand ==
    /\ pc = "names"
    /\ cloud_folder_names # <<>>
    /\ args.exclude_pattern.kind # "bad"
    /\ ~IsExcluded(root, Head(cloud_folder_names))
    /\ LET path == os_path_join(root, Head(cloud_folder_names))
           click == double_click(path)
       IN
        /\ cloud_folder_full_path' = path
        /\ cloud_folder_names' = Tail(cloud_folder_names)
        /\ cloudf_was_found' = TRUE
        /\ lastClick' = [path |-> path, kind |-> "initial", spins |-> 0,
                         existed |-> PathExists(path), looked |-> path \in seen]
        /\ trigLog' = {<<"initial", 0>>}
        /\ IF click = "started"
           THEN /\ requested' = requested \cup {path}
                /\ num_spins' = 0
                /\ pc' = WaitLoop
                /\ status' = [status EXCEPT ![path] = "Waiting"]
                /\ task' = [path |-> path, status |-> "Waiting", round |-> round_,
                            spins |-> 0, early |-> FALSE]
           ELSE /\ pc' = "crashed"
                /\ status' = [status EXCEPT ![path] = "Crashed"]
                /\ task' = [path |-> path, status |-> "Crashed", round |-> round_,
                            spins |-> 0, early |-> TRUE]
                /\ UNCHANGED <<requested, num_spins>>
    /\ UNCHANGED <<args, round_, stack, root, fs, seen, prevTimedOut, listed>>

\* while os.path.exists(cloud_folder_full_path): ... else: print the check mark
CheckExists ==
    /\ pc = "check"
    /\ IF PathExists(cloud_folder_full_path)
       THEN /\ pc' = "spin"
            /\ seen' = seen \cup {cloud_folder_full_path}
            /\ UNCHANGED <<status, task>>
       ELSE /\ pc' = "names"
            /\ status' = [status EXCEPT ![cloud_folder_full_path] = "Succeeded"]
            /\ task' = [task EXCEPT !.status = "Succeeded", !.spins = num_spins]
            /\ seen' = seen \ {cloud_folder_full_path}
    /\ UNCHANGED <<args, cloudf_was_found, round_, stack, root, cloud_folder_names,
                   cloud_folder_full_path, num_spins, fs, requested, trigLog,
                   lastClick, prevTimedOut, listed>>

\* spinner.spin(): _raise_or_retry(), sleep, num_spins += 1
Spin ==
    /\ pc = "spin"
    /\ LET todo == RaiseOrRetry(num_spins) IN
        \/ /\ todo = "raise"
           /\ pc' = except_TimeoutException
           /\ status' = [status EXCEPT ![cloud_folder_full_path] = "TimedOut"]
           /\ task' = [task EXCEPT !.status = "TimedOut", !.spins = num_spins]
           /\ UNCHANGED <<num_spins, requested, trigLog, lastClick>>
        \/ /\ todo = "retry"
           /\ lastClick' = [path |-> cloud_folder_full_path, kind |-> "retry",
                            spins |-> num_spins,
                            existed |-> PathExists(cloud_folder_full_path),
                            looked |-> cloud_folder_full_path \in seen]
           /\ trigLog' = trigLog \cup {<<"retry", num_spins>>}
           /\ IF double_click(cloud_folder_full_path) = "started"
              THEN /\ requested' = requested \cup {cloud_folder_full_path}
                   /\ num_spins' = num_spins + 1
                   /\ pc' = "check"
                   /\ UNCHANGED <<status, task>>
              ELSE /\ pc' = "crashed"
                   /\ status' = [status EXCEPT ![cloud_folder_full_path] = "Crashed"]
                   /\ task' = [task EXCEPT !.status = "Crashed", !.spins = num_spins]
                   /\ UNCHANGED <<requested, num_spins>>
        \/ /\ todo = "pass"
           /\ num_spins' = num_spins + 1
           /\ pc' = "check"
           /\ UNCHANGED <<requested, status, task, trigLog, lastClick>>
    /\ UNCHANGED <<args, cloudf_was_found, round_, stack, root, cloud_folder_names,
                   cloud_folder_full_path, fs, seen, prevTimedOut, listed>>

\* odrive finishes syncing a placeholder it was asked to open
Materialize ==
    \E e \in fs :
        /\ e.kind = "file"
        /\ PathOf(e) \in requested
        /\ fs' = (fs \ {e}) \cup Revealed(e)
        /\ task' = IF /\ task.status = "Waiting"
                      /\ task.path = PathOf(e)
                      /\ \/ pc = "check"
                         \/ pc = "spin" /\ num_spins < timeout_spins
                   THEN [task EXCEPT !.early = TRUE]
                   ELSE task
        /\ UNCHANGED progVars
        /\ UNCHANGED <<requested, status, trigLog, lastClick, seen,
                       prevTimedOut, listed>>

Program ==
    \/ RoundStart
    \/ AllDone
    \/ WalkEnd
    \/ WalkSkip
    \/ WalkNext
    \/ NamesEnd
    \/ PatternError
    \/ SkipExcluded
    \/ Expand
    \/ CheckExists
    \/ Spin

Next == Program \/ Materialize

Spec == Init /\ [][Next]_vars

FairSpec == Spec /\ WF_vars(Program)

----------------------------------------------------------------------------
(* Properties *)

Under(path, dir) == Len(path) > Len(dir) /\ SubSeq(path, 1, Len(dir)) = dir

ExcludedPath(path) ==
    args.exclude_pattern.kind = "re" /\ re_search(args.exclude_pattern, path)

Leftover ==
    {e \in fs : /\ e.kind = "file"
                /\ IsCloudf(e.name)
                /\ Under(PathOf(e), args.directory)
                /\ ~ExcludedPath(PathOf(e))}

Dispatched == {p \in AllCloudf : status[p] # "Idle"}

\* C1: when the run reports completion, no placeholder that the exclusion
\* pattern does not match exists anywhere under the root directory.
C1_NoPlaceholderLeftWhenDone == pc = "done" => Leftover = {}

C1_Witness ==
    /\ pc = "done"
    /\ prevTimedOut # {}
    /\ PathOf(FileC) \in requested
    /\ FileC \notin fs

\* C2: the loop ends only directly after a round that dispatched nothing; a
\* round that dispatched something is followed by another round, and a round
\* that dispatched nothing is the last one.
C2_EndsOnlyAfterEmptyRound ==
    /\ [][(pc = "loop" /\ round_ >= 1 /\ pc' # "loop")
            => IF Dispatched = {}
               THEN pc' = "done"
               ELSE pc' = "walk" /\ round_' = round_ + 1]_vars
    /\ [](pc = "done" => round_ >= 1 /\ Dispatched = {})

C2_Witness ==
    /\ pc = "done"
    /\ round_ = 2
    /\ prevTimedOut = {}
    /\ requested # {}

\* C3: a placeholder whose full path the exclusion pattern matches is never
\* dispatched and os.startfile is never called on it, in any round.
C3_ExcludedNeverTouched ==
    \A p \in AllCloudf :
        ExcludedPath(p) =>
            /\ status[p] = "Idle"
            /\ p \notin requested
            /\ lastClick.path # p
            /\ task.path # p

C3_Witness ==
    /\ round_ >= 2
    /\ pc = "names"
    /\ ExcludedPath(cloud_folder_full_path)
    /\ PathExists(cloud_folder_full_path)
    /\ requested # {}

Ended == {"Succeeded", "TimedOut", "Crashed"}

\* C4: an expansion ends Succeeded exactly if its path stops existing strictly
\* before the deadline of timeout_spins spins, it ends TimedOut at the deadline
\* otherwise, and it ends in no other way.
C4_SucceededIffBeforeDeadline ==
    task.status \in Ended =>
        /\ task.status \in {"Succeeded", "TimedOut"}
        /\ (task.status = "Succeeded") <=> task.early
        /\ task.status = "TimedOut" => task.spins = timeout_spins

\* C5: every expansion ends after at most timeout_spins = ceil(timeout /
\* spin_time) sleeps; one that times out has slept exactly timeout_spins times,
\* which is at least the timeout and less than the timeout plus one spin.
C5_EndsWithinTimeoutSpins ==
    /\ [](num_spins <= timeout_spins)
    /\ [](task.status = "TimedOut" =>
            task.spins = timeout_spins /\ num_spins = timeout_spins)
    /\ [](/\ timeout_spins * SpinTime >= Timeout
          /\ timeout_spins * SpinTime < Timeout + SpinTime)
    /\ (task.status = "Waiting" ~> task.status \in Ended)

C5_Witness ==
    /\ task.status = "TimedOut"
    /\ task.spins = timeout_spins
    /\ PathExists(task.path)
    /\ ~task.early

\* the double clicks of an expansion that has gone through the spins 0..n-1
ExpectedLog(n) ==
    {<<"initial", 0>>} \cup
        {<<"retry", k>> : k \in {j \in 1..(n - 1) :
                                    j < timeout_spins /\ j % retry_spins = 0}}

\* C6: an expansion double clicks once when it starts and then exactly in the
\* spins whose count is a positive multiple of retry_spins below timeout_spins
\* (the path was seen to exist just before): not in the first spin and not in
\* the spin that raises the timeout.
C6_RetryExactlyEveryRetrySpins ==
    /\ task.status = "Waiting" => trigLog = ExpectedLog(num_spins)
    /\ task.status \in {"Succeeded", "TimedOut"} => trigLog = ExpectedLog(task.spins)
    /\ task.status = "Crashed" => trigLog = ExpectedLog(task.spins + 1)
    /\ lastClick.kind = "retry" => lastClick.looked

C6_Witness ==
    /\ task.status = "TimedOut"
    /\ <<"retry", 2 * retry_spins>> \in trigLog
    /\ timeout_spins % retry_spins = 0
    /\ <<"retry", timeout_spins>> \notin trigLog

\* C7: a timeout does not abort the run: the program goes on with the names
\* and directories left in the round, the round is followed by another one, and
\* a path that timed out and is still there when the next round lists its
\* directory is expanded again by a new spinner that starts at zero spins.
C7_TimeoutDoesNotAbort ==
    /\ [][(task.status = "Waiting" /\ task'.status = "TimedOut")
            => /\ pc' = "names"
               /\ cloudf_was_found'
               /\ cloud_folder_names' = cloud_folder_names
               /\ stack' = stack
               /\ round_' = round_]_vars
    /\ [][(pc = "loop" /\ pc' # "loop" /\ \E p \in AllCloudf : status[p] = "TimedOut")
            => pc' = "walk" /\ round_' = round_ + 1]_vars
    /\ [](pc = "loop" /\ round_ >= 2
            => \A p \in prevTimedOut : status[p] = "Idle" => p \notin seen)
    /\ [][(task'.status = "Waiting" /\ task' # task /\ task.status # "Waiting")
            => num_spins' = 0 /\ task'.spins = 0 /\ task'.round = round_]_vars

C7_Witness ==
    /\ round_ >= 2
    /\ task.status = "Waiting"
    /\ task.path \in prevTimedOut
    /\ num_spins = 0
    /\ \E p \in AllCloudf : status[p] = "TimedOut"

\* C8: when the path vanishes between the look that found it and the double
\* click that follows, the expansion ends Succeeded and the run goes on.
C8_VanishBeforeClickIsSuccess ==
    ~lastClick.existed =>
        /\ pc # "crashed"
        /\ status[lastClick.path] \in {"Waiting", "Succeeded"}

\* C9 as stated: no double click is made on a path that does not exist at the
\* time of the click.
C9_NeverClickedWhenGone == lastClick.existed

\* C9: every double click is made on a path that existed when the program
\* last looked at it: the round's listing of its directory for the first
\* click, the os.path.exists of the wait loop for a retry.
C9_ClickedOnlyWhereLastSeen == lastClick.looked

C9_Witness ==
    /\ lastClick.kind = "retry"
    /\ ~lastClick.existed
    /\ lastClick.looked

\* C10: a round starts only when no expansion of the round before is still
\* waiting, and an expansion that waits is one of the round that is running.
C10_RoundBarrier ==
    /\ [][round_' # round_ => \A p \in AllCloudf : status[p] # "Waiting"]_vars
    /\ [](pc \in {"loop", "done"} => \A p \in AllCloudf : status[p] # "Waiting")
    /\ [](task.status = "Waiting" => task.round = round_)

C10_Witness ==
    /\ round_ = 2
    /\ pc = "walk"
    /\ stack = <<Root>>
    /\ prevTimedOut # {}
    /\ task.status = "TimedOut"

WaitingNow == {p \in AllCloudf : status[p] = "Waiting"}

\* the names of the directory just listed that have not had their turn yet
Queued ==
    {os_path_join(root, cloud_folder_names[i]) : i \in 1..Len(cloud_folder_names)}

\* C11: the number of expansions that wait at the same time never exceeds the
\* worker count, whatever count (of at least one) is configured; the names
\* listed and not yet at their turn stay untouched, and when the round ends
\* every listed name the pattern does not match has had its expansion.
C11_WaitingWithinWorkerCount ==
    /\ \A w \in 1..MaxWorkers : Cardinality(WaitingNow) <= w
    /\ pc \in {"check", "spin"} => \A p \in Queued : status[p] = "Idle"
    /\ (pc = "loop" /\ round_ >= 1)
          => \A p \in listed :
                ~ExcludedPath(p) => status[p] \in {"Succeeded", "TimedOut"}

C11_Witness ==
    /\ task.status = "Waiting"
    /\ Queued # {}
    /\ num_spins >= 1
    /\ Cardinality(WaitingNow) = 1

\* C12: in a round an expansion is started only for a path that has had none
\* in this round yet, and no name stands twice among the names still to do,
\* so no path has two expansions in the same round.
C12_OneTaskPerPathPerRound ==
    /\ [][(pc = "names" /\ status' # status)
            => status[cloud_folder_full_path'] = "Idle"]_vars
    /\ [](\A p \in Queued : status[p] = "Idle")
    /\ [](\A i, j \in 1..Len(cloud_folder_names) :
            i # j => cloud_folder_names[i] # cloud_folder_names[j])

C12_Witness ==
    /\ round_ >= 2
    /\ Cardinality(Dispatched) = 3
    /\ task.status = "Waiting"
    /\ task.path \in prevTimedOut

\* the requested placeholders that are still there: the stuck ones
Stuck == {p \in requested : PathExists(p)}

\* the placeholders that appear only when another one is expanded
Nested ==
    {PathOf(c) : c \in UNION {Revealed(e) \cap Placeholders : e \in Placeholders}}

OnlyA ==
    /\ args.directory = Root
    /\ args.exclude_pattern.kind # "bad"
    /\ ~ExcludedPath(PathOf(FileA)) /\ ~ExcludedPath(PathOf(FileC))
    /\ fs \cap {FileB, FileD} = {}
    /\ requested \cap {PathOf(FileB), PathOf(FileD)} = {}

\* C14: a placeholder revealed beneath another one is never dispatched in the
\* round that dispatched the one above it; with a alone in the tree, round 1
\* dispatches a only, and when a succeeded round 2 dispatches exactly a/c.
C14_RevealedWaitsForNextRound ==
    /\ \A e \in Placeholders :
          status[PathOf(e)] # "Idle"
              => \A c \in Revealed(e) \cap Placeholders : status[PathOf(c)] = "Idle"
    /\ (OnlyA /\ round_ = 1) => Dispatched \subseteq {PathOf(FileA)}
    /\ (OnlyA /\ round_ = 2 /\ pc = "loop" /\ prevTimedOut = {})
          => Dispatched = {PathOf(FileC)}

C14_Witness ==
    /\ OnlyA
    /\ round_ = 2
    /\ pc = "loop"
    /\ prevTimedOut = {}
    /\ Dispatched = {PathOf(FileC)}
    /\ ~PathExists(PathOf(FileA))

\* the tree under the root directory holds no placeholder and never held one
EmptyTree ==
    /\ args.directory = Root
    /\ fs \cap Placeholders = {}
    /\ requested = {}

\* C15: for a tree without any placeholder the program runs exactly one round,
\* never calls os.startfile, and reports completion.
C15_EmptyTreeOneRound ==
    /\ [][EmptyTree => EmptyTree']_vars
    /\ [](EmptyTree => round_ <= 1 /\ lastClick.kind = "none" /\ pc # "crashed")
    /\ [](EmptyTree /\ pc = "done" => round_ = 1)
    /\ (EmptyTree ~> (pc = "done" /\ round_ = 1 /\ lastClick.kind = "none"))

C15_Witness ==
    /\ EmptyTree
    /\ pc = "done"
    /\ round_ = 1
    /\ Readme \in fs

\* the tree holds placeholders, the pattern matches every one of them, and
\* nothing has been asked of odrive
AllExcluded ==
    /\ args.directory = Root
    /\ fs \cap Placeholders # {}
    /\ \A e \in fs \cap Placeholders : ExcludedPath(PathOf(e))
    /\ requested = {}

\* C16: when the pattern matches every placeholder of the tree, round 1
\* dispatches nothing, the loop ends after that one round, and every
\* placeholder is still on disk, never double clicked.
C16_AllExcludedOneRound ==
    /\ [][AllExcluded => AllExcluded' /\ fs' = fs]_vars
    /\ [](AllExcluded => /\ round_ <= 1
                         /\ Dispatched = {}
                         /\ lastClick.kind = "none"
                         /\ pc # "crashed")
    /\ (AllExcluded ~> (pc = "done" /\ round_ = 1 /\ AllExcluded))

C16_Witness ==
    /\ AllExcluded
    /\ pc = "done"
    /\ round_ = 1
    /\ FileD \in fs

\* C17: with a root directory that does not exist the run ends in a fatal
\* error at startup: no round is run and completion is never reported.
C17_MissingRootIsFatal ==
    args.directory = Nowhere => round_ = 0 /\ pc # "done"

\* C18: with a malformed exclusion pattern the run ends in a fatal error at
\* startup, whatever the tree: no round is run, os.startfile is never called
\* and completion is never reported.
C18_BadPatternIsFatal ==
    args.exclude_pattern.kind = "bad"
        => round_ = 0 /\ lastClick.kind = "none" /\ pc # "done"

\* the placeholders the walk of the running round has listed so far and the
\* exclusion pattern does not match
ListedNotExcluded == {p \in listed : ~ExcludedPath(p)}

C20_OneExpansionAtATime ==
    /\ [](Cardinality(WaitingNow) <= 1 /\ WaitingNow \subseteq {task.path})
    /\ [][(pc = "names" /\ status' # status)
            => \A q \in Dispatched : status[q] \in {"Succeeded", "TimedOut"}]_vars
    /\ [][(pc = "names" /\ status' # status /\ task.status = "TimedOut"
              /\ task.round = round_)
            => num_spins = timeout_spins /\ task.spins = timeout_spins]_vars

C20_Witness ==
    /\ pc = "check"
    /\ num_spins = 0
    /\ task.status = "Waiting"
    /\ \E q \in Dispatched : /\ q # task.path
                             /\ status[q] = "TimedOut"
                             /\ PathExists(q)

====
